---- MODULE Spec2Model ----
(***************************************************************************)
(* The dispatch engine of go-eventbus: bus.Publish with its observer and   *)
(* subscription fan-out, doWithTimeout, and the lifecycle operations       *)
(* Close, Flush and Wait.  Every goroutine of the code is a process of the *)
(* model; a step is one statement (or one run of statements that neither   *)
(* blocks nor is observed by another goroutine).                           *)
(*                                                                         *)
(* Time is abstract: a context with a positive timeout may expire at any   *)
(* moment after it is derived.  A handler or observer is opaque: once it   *)
(* has begun it returns at some later moment, a handler with nil or with   *)
(* its own error.  An unrecovered panic ends the process: no step follows. *)
(***************************************************************************)
EXTENDS Integers, Sequences, FiniteSets, TLC

\* ------------------------------------------------------------------ bounds
MaxSubs == 2        \* subscriptions registered with On / When
MaxFuncs == 2       \* handlers attached to one subscription with Do
MaxMatchers == 2    \* matchers of one subscription (On / When plus Or)
MaxObs == 2         \* observers ever added with AddObserver

DefaultConcurrency == 10

Names == {"a", "b"}             \* event names
Durations == {0, 1}             \* values given to the event options
ObsDurations == {0, 2}          \* values given to the observer option
ConcurrencyOpts == {0, 1}       \* values given to WithMaxConcurrencyBusOpt
Pubs == {1, 2}                  \* Publish calls
Closers == {1, 2}               \* Close calls
Flushes == {"flush", "wait"}    \* Flush calls: a caller's, and the one Wait makes

\* ------------------------------------------------------------------ errors
NilErr == [kind |-> "nil"]
ErrBusClosed == [kind |-> "ErrBusClosed"]
Canceled == [kind |-> "Canceled"]
DeadlineExceeded == [kind |-> "DeadlineExceeded"]
HandlerErr(s, i) == [kind |-> "handler", sub |-> s, idx |-> i]
\* fmt.Errorf("subscription error; subscription: %v, event: %v: %w", s, e, err)
Wrapped(s, e) == [kind |-> "subscription error", sub |-> s, err |-> e]
Errors(es) == [kind |-> "Errors", errs |-> es]
NoResult == [kind |-> "none"]

CtxErrs == {Canceled, DeadlineExceeded}

\* ---------------------------------------------------------------- matchers
ExactMatcher(n) == [kind |-> "exact", arg |-> n]
ConstantMatcher(b) == [kind |-> "constant", arg |-> IF b THEN "true" ELSE "false"]
Matchers == {ExactMatcher(n) : n \in Names} \cup {ConstantMatcher(b) : b \in BOOLEAN}

MatcherMatchAlways(m, name) == TRUE

MatcherMatch(m, name) ==
    IF m.kind = "exact" THEN m.arg = name ELSE m.arg = "true"

\* Mutant of SubMatch: the matchers are AND-combined
SubMatchAll(s, name) == \A k \in 1..Len(s.matchers) : MatcherMatch(s.matchers[k], name)

\* subscription.Match: the OR of the subscription's matchers
SubMatch(s, name) == \E k \in 1..Len(s.matchers) : MatcherMatch(s.matchers[k], name)

shortestDuration(d1, d2) == IF d2 < d1 THEN d2 ELSE d1

VARIABLES
    closeCh,          \* bus.close: TRUE once the channel is closed
    wg,               \* bus.wg: the WaitGroup's counter
    continueOnError,  \* bus.continueOnError
    concurrency,      \* bus.concurrency
    subs,             \* bus.subscriptions, as the sequence of subscriptions in creation order
    observers,        \* bus.observers: observer id -> its options' timeout
    nextObs,          \* observers added so far (id.New)
    panicked,         \* an unrecovered panic has ended the process
    pc,               \* Publish call -> where its caller is
    ev,               \* Publish call -> the Event it built
    callerErr,        \* Publish call -> Err() of the caller's context
    dctxErr,          \* Publish call -> Err() of the context doWithTimeout passes to the dispatch
    result,           \* Publish call -> what it returned
    disp,             \* Publish call -> its dispatch goroutine
    hst,              \* Publish call -> handler invocation (sub, idx) -> its goroutine
    ost,              \* Publish call -> observer id -> its notification goroutines
    sem,              \* Publish call -> slots taken of its semaphore
    called,           \* history: Publish call -> the handler invocations called, in order
    hist,        \* history: Publish call -> what held when the call called
    cpc,              \* Close call -> where it is
    fpc,              \* Flush call -> where it is
    fgo,              \* Flush call -> its goroutine (wg.Wait, then the send on done)
    fctxErr,          \* Flush call -> Err() of its context
    fseen,            \* history: Flush call -> the Publish calls under way when it was called
    wpc,              \* the Wait call
    wgo               \* Wait's goroutine

busVars == <<closeCh, wg, continueOnError, concurrency, subs, observers, nextObs, panicked>>
pubVars == <<pc, ev, callerErr, dctxErr, result, disp, hst, ost, sem, called, hist>>
lifeVars == <<cpc, fpc, fgo, fctxErr, fseen, wpc, wgo>>
vars == <<busVars, pubVars, lifeVars>>

\* --------------------------------------------------------------- New(opts)
WithMaxConcurrencyBusOpt(c) == IF c < 1 THEN 1 ELSE c

NoEvent == [name |-> "", handlerTimeout |-> 0, publishTimeout |-> 0]

NoDisp ==
    [pc |-> "none", obsTodo |-> {}, obsSeen |-> {}, obs |-> 0,
     keysTodo |-> {}, keysSeen |-> {}, list |-> <<>>, sub |-> 0, idx |-> 0, n |-> 0,
     errs |-> <<>>, ret |-> NoResult]

NoHist ==
    [begun |-> FALSE, closed |-> FALSE, open |-> FALSE, ctx |-> NilErr,
     expired |-> FALSE, abandoned |-> {}, received |-> {}]

InitCalls ==
    /\ pc = [p \in Pubs |-> "idle"]
    /\ ev = [p \in Pubs |-> NoEvent]
    /\ callerErr = [p \in Pubs |-> NilErr]
    /\ dctxErr = [p \in Pubs |-> NilErr]
    /\ result = [p \in Pubs |-> NoResult]
    /\ disp = [p \in Pubs |-> NoDisp]
    /\ hst = [p \in Pubs |-> <<>>]
    /\ ost = [p \in Pubs |-> <<>>]
    /\ sem = [p \in Pubs |-> 0]
    /\ called = [p \in Pubs |-> <<>>]
    /\ hist = [p \in Pubs |-> NoHist]
    /\ cpc = [c \in Closers |-> "idle"]
    /\ fpc = [f \in Flushes |-> "idle"]
    /\ fgo = [f \in Flushes |-> "none"]
    /\ fctxErr = [f \in Flushes |-> NilErr]
    /\ fseen = [f \in Flushes |-> [started |-> {}, registered |-> {}]]
    /\ wpc = "idle"
    /\ wgo = "none"

\* New(): the maps empty, the close channel open, concurrency 10, and the options applied
Init ==
    /\ closeCh = FALSE
    /\ wg = 0
    /\ continueOnError \in BOOLEAN
    /\ concurrency = DefaultConcurrency
    /\ subs = <<>>
    /\ observers = <<>>
    /\ nextObs = 0
    /\ panicked = FALSE
    /\ InitCalls

\* ------------------------------------------------------------ registration
\* bus.On(name): a subscription with ExactMatcher(name), appended under the key name
On(name) ==
    /\ ~panicked
    /\ Len(subs) < MaxSubs
    /\ subs' = Append(subs, [key |-> [type |-> "name", str |-> name],
                             matchers |-> <<ExactMatcher(name)>>, funcs |-> 0])
    /\ UNCHANGED <<closeCh, wg, continueOnError, concurrency, observers, nextObs, panicked,
                   pubVars, lifeVars>>

\* bus.When(matchers...): the key is noMatch("id:" + id), which no event name equals
When(ms) ==
    /\ ~panicked
    /\ Len(subs) < MaxSubs
    /\ subs' = Append(subs, [key |-> [type |-> "noMatch", str |-> "id:" \o ToString(Len(subs) + 1)],
                             matchers |-> ms, funcs |-> 0])
    /\ UNCHANGED <<closeCh, wg, continueOnError, concurrency, observers, nextObs, panicked,
                   pubVars, lifeVars>>

\* subscription.Or(matcher)
Or(s, m) ==
    /\ ~panicked
    /\ s \in 1..Len(subs)
    /\ Len(subs[s].matchers) < MaxMatchers
    /\ subs' = [subs EXCEPT ![s].matchers = Append(@, m)]
    /\ UNCHANGED <<closeCh, wg, continueOnError, concurrency, observers, nextObs, panicked,
                   pubVars, lifeVars>>

\* subscription.Do(fn): the handler is appended; handler i of subscription s is (s, i)
Do(s) ==
    /\ ~panicked
    /\ s \in 1..Len(subs)
    /\ subs[s].funcs < MaxFuncs
    /\ subs' = [subs EXCEPT ![s].funcs = @ + 1]
    /\ UNCHANGED <<closeCh, wg, continueOnError, concurrency, observers, nextObs, panicked,
                   pubVars, lifeVars>>

\* bus.AddObserver(o, WithTimeoutObserverOpt(d))
AddObserver(d) ==
    /\ ~panicked
    /\ nextObs < MaxObs
    /\ nextObs' = nextObs + 1
    /\ observers' = observers @@ ((nextObs + 1) :> d)
    /\ UNCHANGED <<closeCh, wg, continueOnError, concurrency, subs, panicked,
                   pubVars, lifeVars>>

\* bus.RemoveObserver(id), for an id that is present
RemoveObserver(o) ==
    /\ ~panicked
    /\ o \in DOMAIN observers
    /\ observers' = [x \in DOMAIN observers \ {o} |-> observers[x]]
    /\ UNCHANGED <<closeCh, wg, continueOnError, concurrency, subs, nextObs, panicked,
                   pubVars, lifeVars>>

\* the keys of bus.subscriptions
Keys == {subs[s].key : s \in 1..Len(subs)}

\* bus.subscriptions[key]: the subscriptions appended under the key, in order
RECURSIVE SubsOfFrom(_, _)
SubsOfFrom(key, s) ==
    IF s > Len(subs) THEN <<>>
    ELSE (IF subs[s].key = key THEN <<s>> ELSE <<>>) \o SubsOfFrom(key, s + 1)

SubsOf(key) == SubsOfFrom(key, 1)

\* ----------------------------------------------------------------- Publish
\* bus.closed(): a receive on the close channel succeeds once it is closed
closedNever == FALSE

closed == closeCh

\* The first check of Publish, when the context is done
PublishCtxCheckSkipped(p) == FALSE

PublishCtxCheck(p) == callerErr[p] # NilErr

\* Publish, up to the construction of the event: the context check, then the closed check,
\* then newEvent and the options.  name, ht and pt are the call's arguments.
PublishStart(p, name, ht, pt) ==
    /\ ~panicked
    /\ pc[p] = "idle"
    /\ hist' = [hist EXCEPT ![p].begun = TRUE,
                             ![p].closed = \E c \in Closers : cpc[c] = "returned",
                             ![p].open = ~closeCh,
                             ![p].ctx = callerErr[p]]
    /\ IF PublishCtxCheck(p)
       THEN /\ pc' = [pc EXCEPT ![p] = "returned"]
            /\ result' = [result EXCEPT ![p] = callerErr[p]]
            /\ ev' = ev
       ELSE IF closed
       THEN /\ pc' = [pc EXCEPT ![p] = "returned"]
            /\ result' = [result EXCEPT ![p] = ErrBusClosed]
            /\ ev' = ev
       ELSE /\ pc' = [pc EXCEPT ![p] = "checked"]
            /\ result' = result
            /\ ev' = [ev EXCEPT ![p] =
                        [name |-> name, handlerTimeout |-> ht, publishTimeout |-> pt]]
    /\ UNCHANGED <<busVars, callerErr, dctxErr, disp, hst, ost, sem, called, lifeVars>>

\* b.wg.Add(1)
PublishRegister(p) ==
    /\ ~panicked
    /\ pc[p] = "checked"
    /\ pc' = [pc EXCEPT ![p] = "registered"]
    /\ wg' = wg + 1
    /\ UNCHANGED <<closeCh, continueOnError, concurrency, subs, observers, nextObs, panicked,
                   ev, callerErr, dctxErr, result, disp, hst, ost, sem, called, hist,
                   lifeVars>>

\* What the deferred b.wg.Done() of a registered Publish does to the counter
wgDoneForgotten == wg

wgDone == wg - 1

\* The return of a registered Publish from doWithTimeout: the deferred cancel() of the
\* context derived for a positive publish timeout, the deferred b.wg.Done(), the result.
PublishReturn(p, r) ==
    /\ pc' = [pc EXCEPT ![p] = "returned"]
    /\ result' = [result EXCEPT ![p] = r]
    /\ wg' = wgDone
    /\ dctxErr' = [dctxErr EXCEPT ![p] =
                      IF ev[p].publishTimeout > 0 /\ pc[p] = "select" /\ @ = NilErr
                      THEN Canceled ELSE @]

\* doWithTimeout(ctx, e.publishTimeout, ...), up to its select: a done context returns its
\* error; otherwise the context is derived and the dispatch goroutine is called.
PublishCall(p) ==
    /\ ~panicked
    /\ pc[p] = "registered"
    /\ IF callerErr[p] # NilErr
       THEN /\ PublishReturn(p, callerErr[p])
            /\ disp' = disp
       ELSE /\ pc' = [pc EXCEPT ![p] = "select"]
            /\ disp' = [disp EXCEPT ![p].pc = "spawned"]
            /\ UNCHANGED <<result, wg, dctxErr>>
    /\ UNCHANGED <<closeCh, continueOnError, concurrency, subs, observers, nextObs, panicked,
                   ev, callerErr, hst, ost, sem, called, hist, lifeVars>>

\* select, case err := <-done
PublishRecv(p) ==
    /\ ~panicked
    /\ pc[p] = "select"
    /\ disp[p].pc = "sending"
    /\ PublishReturn(p, disp[p].ret)
    /\ disp' = [disp EXCEPT ![p].pc = "exited"]
    /\ UNCHANGED <<closeCh, continueOnError, concurrency, subs, observers, nextObs, panicked,
                   ev, callerErr, hst, ost, sem, called, hist, lifeVars>>

\* Mutant of PublishCtxDone: the done context is looked at only when the dispatch has its
\* result ready, so Publish waits for the dispatch after the deadline
PublishCtxDoneWaits(p) ==
    /\ ~panicked
    /\ pc[p] = "select"
    /\ dctxErr[p] # NilErr
    /\ disp[p].pc = "sending"
    /\ PublishReturn(p, dctxErr[p])
    /\ UNCHANGED <<closeCh, continueOnError, concurrency, subs, observers, nextObs, panicked,
                   ev, callerErr, disp, hst, ost, sem, called, hist, lifeVars>>

\* select, case <-ctx.Done(): the dispatch goroutine is left running
PublishCtxDone(p) ==
    /\ ~panicked
    /\ pc[p] = "select"
    /\ dctxErr[p] # NilErr
    /\ PublishReturn(p, dctxErr[p])
    /\ UNCHANGED <<closeCh, continueOnError, concurrency, subs, observers, nextObs, panicked,
                   ev, callerErr, disp, hst, ost, sem, called, hist, lifeVars>>

\* The deadline of context.WithTimeout(ctx, e.publishTimeout) passes
PublishTimer(p) ==
    /\ ~panicked
    /\ pc[p] = "select"
    /\ ev[p].publishTimeout > 0
    /\ dctxErr[p] = NilErr
    /\ dctxErr' = [dctxErr EXCEPT ![p] = DeadlineExceeded]
    /\ hist' = [hist EXCEPT ![p].expired = TRUE]
    /\ UNCHANGED <<busVars, pc, ev, callerErr, result, disp, hst, ost, sem, called, lifeVars>>

\* The caller's context is canceled (e = Canceled) or expires (e = DeadlineExceeded);
\* a context derived from it is done with the same error unless it was done already.
CtxCancel(p, e) ==
    /\ ~panicked
    /\ pc[p] # "returned"
    /\ callerErr[p] = NilErr
    /\ callerErr' = [callerErr EXCEPT ![p] = e]
    /\ dctxErr' = [dctxErr EXCEPT ![p] = IF @ = NilErr THEN e ELSE @]
    /\ UNCHANGED <<busVars, pc, ev, result, disp, hst, ost, sem, called, hist, lifeVars>>

\* Mutant of DispatchBegin: the subscriptions are dispatched without the observer fan-out
DispatchBeginAtKeys(p) ==
    /\ ~panicked
    /\ disp[p].pc = "spawned"
    /\ disp' = [disp EXCEPT ![p].pc = "keys", ![p].keysTodo = Keys]
    /\ UNCHANGED <<busVars, pc, ev, callerErr, dctxErr, result, hst, ost, sem, called,
                   hist, lifeVars>>

\* ---------------------------------------------------- the dispatch goroutine
\* The goroutine doWithTimeout starts for Publish begins: publishToObservers makes its
\* semaphore and starts ranging over b.observers.
DispatchBegin(p) ==
    /\ ~panicked
    /\ disp[p].pc = "spawned"
    /\ disp' = [disp EXCEPT ![p].pc = "observers", ![p].obsTodo = DOMAIN observers]
    /\ UNCHANGED <<busVars, pc, ev, callerErr, dctxErr, result, hst, ost, sem, called,
                   hist, lifeVars>>

\* go func() { defer s.Release(1); doWithTimeout(ctx, shortestDuration(...), Observe) }()
SpawnObserver(p, o) ==
    ost[p] @@ (o :> [w |-> "spawned", f |-> "none",
                      timeout |-> shortestDuration(ev[p].handlerTimeout, observers[o])])

\* Mutant of DispatchObservers: the range ends only when every launched notification
\* has finished
DispatchObserversWait(p) ==
    LET d == disp[p]
        avail == DOMAIN observers \ d.obsSeen
        must == (d.obsTodo \cap DOMAIN observers) \ d.obsSeen
    IN  /\ ~panicked
        /\ d.pc = "observers"
        /\ \/ /\ must = {}
              /\ \A o \in DOMAIN ost[p] : ost[p][o].w = "exited"
              /\ disp' = [disp EXCEPT ![p].pc = "keys", ![p].keysTodo = Keys]
              /\ UNCHANGED <<ost, sem>>
           \/ \E o \in avail :
                IF dctxErr[p] # NilErr
                THEN /\ disp' = [disp EXCEPT ![p].pc = "sending", ![p].ret = dctxErr[p]]
                     /\ UNCHANGED <<ost, sem>>
                ELSE IF sem[p] < concurrency
                THEN /\ disp' = [disp EXCEPT ![p].obsSeen = @ \cup {o}]
                     /\ sem' = [sem EXCEPT ![p] = @ + 1]
                     /\ ost' = [ost EXCEPT ![p] = SpawnObserver(p, o)]
                ELSE /\ disp' = [disp EXCEPT ![p].pc = "acquire", ![p].obs = o,
                                             ![p].obsSeen = @ \cup {o}]
                     /\ UNCHANGED <<ost, sem>>
        /\ UNCHANGED <<busVars, pc, ev, callerErr, dctxErr, result, hst, called,
                       hist, lifeVars>>

\* One turn of the range over b.observers, or its end.  An observer removed before it is
\* reached is not produced; one added during the range may or may not be.  A turn checks
\* ctx.Err(), then acquires a slot: at once when one is free, otherwise it waits.
DispatchObservers(p) ==
    LET d == disp[p]
        avail == DOMAIN observers \ d.obsSeen
        must == (d.obsTodo \cap DOMAIN observers) \ d.obsSeen
    IN  /\ ~panicked
        /\ d.pc = "observers"
        /\ \/ /\ must = {}
              /\ disp' = [disp EXCEPT ![p].pc = "keys", ![p].keysTodo = Keys]
              /\ UNCHANGED <<ost, sem>>
           \/ \E o \in avail :
                IF dctxErr[p] # NilErr
                THEN /\ disp' = [disp EXCEPT ![p].pc = "sending", ![p].ret = dctxErr[p]]
                     /\ UNCHANGED <<ost, sem>>
                ELSE IF sem[p] < concurrency
                THEN /\ disp' = [disp EXCEPT ![p].obsSeen = @ \cup {o}]
                     /\ sem' = [sem EXCEPT ![p] = @ + 1]
                     /\ ost' = [ost EXCEPT ![p] = SpawnObserver(p, o)]
                ELSE /\ disp' = [disp EXCEPT ![p].pc = "acquire", ![p].obs = o,
                                             ![p].obsSeen = @ \cup {o}]
                     /\ UNCHANGED <<ost, sem>>
        /\ UNCHANGED <<busVars, pc, ev, callerErr, dctxErr, result, hst, called,
                       hist, lifeVars>>

\* s.Acquire(ctx, 1) that had to wait: a slot is released, or the context is done
DispatchAcquire(p) ==
    LET d == disp[p]
    IN  /\ ~panicked
        /\ d.pc = "acquire"
        /\ \/ /\ sem[p] < concurrency
              /\ d.obs \in DOMAIN observers
              /\ disp' = [disp EXCEPT ![p].pc = "observers"]
              /\ sem' = [sem EXCEPT ![p] = @ + 1]
              /\ ost' = [ost EXCEPT ![p] = SpawnObserver(p, d.obs)]
           \/ /\ dctxErr[p] # NilErr
              /\ disp' = [disp EXCEPT ![p].pc = "sending", ![p].ret = dctxErr[p]]
              /\ UNCHANGED <<ost, sem>>
        /\ UNCHANGED <<busVars, pc, ev, callerErr, dctxErr, result, hst, called,
                       hist, lifeVars>>

\* The inner loops of publishToSubscriptions, from a list of subscriptions of one key:
\* subscriptions that do not match (or have no handler) are passed over; the next handler
\* to call is handler 1 of the first that matches, and with none left the range over the
\* keys goes on.
RECURSIVE EnterList(_, _, _)
EnterList(d, list, name) ==
    IF list = <<>> THEN [d EXCEPT !.pc = "keys", !.list = <<>>]
    ELSE IF SubMatch(subs[Head(list)], name) /\ subs[Head(list)].funcs > 0
    THEN [d EXCEPT !.pc = "call", !.list = Tail(list), !.sub = Head(list), !.idx = 1,
                   !.n = subs[Head(list)].funcs]
    ELSE EnterList(d, Tail(list), name)

\* After handler idx of the subscription: the next one of s.funcs, or the next subscription
AdvanceHandler(d, name) ==
    IF d.idx < d.n THEN [d EXCEPT !.pc = "call", !.idx = @ + 1]
    ELSE EnterList(d, d.list, name)

\* if err != nil { if b.continueOnError { errs = append(...); continue }; return err }
OnErrAlwaysReturn(d, err, name) == [d EXCEPT !.pc = "sending", !.ret = err]

OnErrAlwaysContinue(d, err, name) ==
    AdvanceHandler([d EXCEPT !.errs = Append(@, Wrapped(d.sub, err))], name)

OnErr(d, err, name) ==
    IF continueOnError
    THEN AdvanceHandler([d EXCEPT !.errs = Append(@, Wrapped(d.sub, err))], name)
    ELSE [d EXCEPT !.pc = "sending", !.ret = err]

\* if len(errs) > 0 { return errs }; return nil
SubscriptionsResult(errs) == IF Len(errs) > 0 THEN Errors(errs) ELSE NilErr

\* One turn of the range over b.subscriptions, or its end.  A key added during the range
\* may or may not be produced.  A turn checks ctx.Err() and enters the key's list.
DispatchNextKey(p) ==
    LET d == disp[p]
        avail == Keys \ d.keysSeen
        must == d.keysTodo \ d.keysSeen
    IN  /\ ~panicked
        /\ d.pc = "keys"
        /\ \/ /\ must = {}
              /\ disp' = [disp EXCEPT ![p].pc = "sending",
                                      ![p].ret = SubscriptionsResult(d.errs)]
           \/ \E k \in avail :
                IF dctxErr[p] # NilErr
                THEN disp' = [disp EXCEPT ![p].pc = "sending", ![p].ret = dctxErr[p]]
                ELSE disp' = [disp EXCEPT ![p] =
                                 EnterList([d EXCEPT !.keysSeen = @ \cup {k}],
                                           SubsOf(k), ev[p].name)]
        /\ UNCHANGED <<busVars, pc, ev, callerErr, dctxErr, result, hst, ost, sem, called,
                       hist, lifeVars>>

\* doWithTimeout(ctx, e.handlerTimeout, fn), up to its select: a done context returns its
\* error without starting fn; otherwise the goroutine that runs the handler is called.
DispatchCall(p) ==
    LET d == disp[p]
    IN  /\ ~panicked
        /\ d.pc = "call"
        /\ IF dctxErr[p] # NilErr
           THEN /\ disp' = [disp EXCEPT ![p] = OnErr(d, dctxErr[p], ev[p].name)]
                /\ hst' = hst
           ELSE /\ disp' = [disp EXCEPT ![p].pc = "select"]
                /\ hst' = [hst EXCEPT ![p] = @ @@ (<<d.sub, d.idx>> :> "spawned")]
        /\ called' = [called EXCEPT ![p] =
                         IF dctxErr[p] # NilErr THEN @ ELSE Append(@, <<d.sub, d.idx>>)]
        /\ UNCHANGED <<busVars, pc, ev, callerErr, dctxErr, result, ost, sem,
                       hist, lifeVars>>

\* The handler's goroutine is in its send on done: fn has returned
HandlerDoneEarly(st) == st \in {"running", "sendNil", "sendErr"}

HandlerDone(st) == st \in {"sendNil", "sendErr"}

\* select, case err := <-done: the handler's goroutine hands over its result and ends
DispatchRecv(p) ==
    LET d == disp[p]
        slot == <<d.sub, d.idx>>
    IN  /\ ~panicked
        /\ d.pc = "select"
        /\ HandlerDone(hst[p][slot])
        /\ hst' = [hst EXCEPT ![p][slot] =
                      IF @ = "sendNil" THEN "exitNil" ELSE IF @ = "sendErr" THEN "exitErr" ELSE @]
        /\ disp' = [disp EXCEPT ![p] =
                       IF hst[p][slot] = "sendErr"
                       THEN OnErr(d, HandlerErr(d.sub, d.idx), ev[p].name)
                       ELSE AdvanceHandler(d, ev[p].name)]
        /\ hist' = [hist EXCEPT ![p].received =
                        IF pc[p] # "returned" THEN @ \cup {slot} ELSE @]
        /\ UNCHANGED <<busVars, pc, ev, callerErr, dctxErr, result, ost, sem, called,
                       lifeVars>>

\* select, case <-ctx.Done(): the context passed to the dispatch is done, or the deadline
\* of the context derived for a positive handler timeout passes.  The handler's goroutine
\* is left as it is: the invocation is abandoned.
DispatchCtxDone(p) ==
    LET d == disp[p]
    IN  /\ ~panicked
        /\ d.pc = "select"
        /\ \E e \in CtxErrs :
              /\ \/ e = dctxErr[p]
                 \/ e = DeadlineExceeded /\ ev[p].handlerTimeout > 0
              /\ disp' = [disp EXCEPT ![p] = OnErr(d, e, ev[p].name)]
              /\ hist' = [hist EXCEPT ![p].abandoned = @ \cup {<<d.sub, d.idx>>},
                                      ![p].expired = @ \/ (e = DeadlineExceeded /\ dctxErr[p] # e)]
        /\ UNCHANGED <<busVars, pc, ev, callerErr, dctxErr, result, hst, ost, sem, called,
                       lifeVars>>

\* ------------------------------------------------------- handler goroutines
\* go func() { done <- fn(ctx) }(): the handler begins
HandlerBegin(p, slot) ==
    /\ ~panicked
    /\ slot \in DOMAIN hst[p]
    /\ hst[p][slot] = "spawned"
    /\ hst' = [hst EXCEPT ![p][slot] = "running"]
    /\ UNCHANGED <<busVars, pc, ev, callerErr, dctxErr, result, disp, ost, sem, called,
                   hist, lifeVars>>

\* The handler returns, nil or its error, and its goroutine blocks in the send on done
HandlerReturn(p, slot, fail) ==
    /\ ~panicked
    /\ slot \in DOMAIN hst[p]
    /\ hst[p][slot] = "running"
    /\ hst' = [hst EXCEPT ![p][slot] = IF fail THEN "sendErr" ELSE "sendNil"]
    /\ UNCHANGED <<busVars, pc, ev, callerErr, dctxErr, result, disp, ost, sem, called,
                   hist, lifeVars>>

\* ------------------------------------------------------ observer goroutines
\* doWithTimeout for the notification, up to its select; a done context releases the slot
ObserverCall(p, o) ==
    /\ ~panicked
    /\ o \in DOMAIN ost[p]
    /\ ost[p][o].w = "spawned"
    /\ IF dctxErr[p] # NilErr
       THEN /\ ost' = [ost EXCEPT ![p][o].w = "exited"]
            /\ sem' = [sem EXCEPT ![p] = @ - 1]
       ELSE /\ ost' = [ost EXCEPT ![p][o].w = "select", ![p][o].f = "spawned"]
            /\ sem' = sem
    /\ UNCHANGED <<busVars, pc, ev, callerErr, dctxErr, result, disp, hst, called,
                   hist, lifeVars>>

\* o.Observe(ctx, e.Name, e.Data) begins
ObserveBegin(p, o) ==
    /\ ~panicked
    /\ o \in DOMAIN ost[p]
    /\ ost[p][o].f = "spawned"
    /\ ost' = [ost EXCEPT ![p][o].f = "running"]
    /\ UNCHANGED <<busVars, pc, ev, callerErr, dctxErr, result, disp, hst, sem, called,
                   hist, lifeVars>>

\* Observe returns and its goroutine blocks in the send on done
ObserveReturn(p, o) ==
    /\ ~panicked
    /\ o \in DOMAIN ost[p]
    /\ ost[p][o].f = "running"
    /\ ost' = [ost EXCEPT ![p][o].f = "sending"]
    /\ UNCHANGED <<busVars, pc, ev, callerErr, dctxErr, result, disp, hst, sem, called,
                   hist, lifeVars>>

\* select, case err := <-done, then the deferred s.Release(1)
ObserverRecv(p, o) ==
    /\ ~panicked
    /\ o \in DOMAIN ost[p]
    /\ ost[p][o].w = "select"
    /\ ost[p][o].f = "sending"
    /\ ost' = [ost EXCEPT ![p][o].w = "exited", ![p][o].f = "exited"]
    /\ sem' = [sem EXCEPT ![p] = @ - 1]
    /\ UNCHANGED <<busVars, pc, ev, callerErr, dctxErr, result, disp, hst, called,
                   hist, lifeVars>>

\* select, case <-ctx.Done(), then the deferred s.Release(1); Observe is left as it is
ObserverCtxDone(p, o) ==
    /\ ~panicked
    /\ o \in DOMAIN ost[p]
    /\ ost[p][o].w = "select"
    /\ dctxErr[p] # NilErr \/ ost[p][o].timeout > 0
    /\ ost' = [ost EXCEPT ![p][o].w = "exited"]
    /\ sem' = [sem EXCEPT ![p] = @ - 1]
    /\ UNCHANGED <<busVars, pc, ev, callerErr, dctxErr, result, disp, hst, called,
                   hist, lifeVars>>

\* -------------------------------------------------------------------- Close
\* if b.closed() { return }
CloseCheck(c) ==
    /\ ~panicked
    /\ cpc[c] = "idle"
    /\ cpc' = [cpc EXCEPT ![c] = IF closed THEN "returned" ELSE "checked"]
    /\ UNCHANGED <<busVars, pubVars, fpc, fgo, fctxErr, fseen, wpc, wgo>>

\* close(b.close): closing a closed channel panics
CloseDo(c) ==
    /\ ~panicked
    /\ cpc[c] = "checked"
    /\ IF closeCh
       THEN /\ panicked' = TRUE
            /\ UNCHANGED <<closeCh, cpc>>
       ELSE /\ closeCh' = TRUE
            /\ cpc' = [cpc EXCEPT ![c] = "returned"]
            /\ panicked' = panicked
    /\ UNCHANGED <<wg, continueOnError, concurrency, subs, observers, nextObs,
                   pubVars, fpc, fgo, fctxErr, fseen, wpc, wgo>>

\* -------------------------------------------------------------------- Flush
\* Flush, up to its select: a done context returns; otherwise the goroutine that waits
\* for the WaitGroup is called.  Wait's goroutine calls Flush once the bus is closed.
FlushStart(f) ==
    /\ ~panicked
    /\ fpc[f] = "idle"
    /\ f = "wait" => wgo = "flush"
    /\ fseen' = [fseen EXCEPT ![f] =
                     [started |-> {p \in Pubs : pc[p] \in {"checked", "registered", "select"}},
                      registered |-> {p \in Pubs : pc[p] \in {"registered", "select"}}]]
    /\ IF fctxErr[f] # NilErr
       THEN /\ fpc' = [fpc EXCEPT ![f] = "returned"]
            /\ fgo' = fgo
       ELSE /\ fpc' = [fpc EXCEPT ![f] = "select"]
            /\ fgo' = [fgo EXCEPT ![f] = "waiting"]
    /\ UNCHANGED <<busVars, pubVars, cpc, fctxErr, wpc, wgo>>

\* b.wg.Wait() returns when the counter is zero
wgWait == wg = 0

FlushGoWait(f) ==
    /\ ~panicked
    /\ fgo[f] = "waiting"
    /\ wgWait
    /\ fgo' = [fgo EXCEPT ![f] = "sending"]
    /\ UNCHANGED <<busVars, pubVars, cpc, fpc, fctxErr, fseen, wpc, wgo>>

\* select, case <-done; then the deferred close(done)
FlushRecv(f) ==
    /\ ~panicked
    /\ fpc[f] = "select"
    /\ fgo[f] = "sending"
    /\ fpc' = [fpc EXCEPT ![f] = "returned"]
    /\ fgo' = [fgo EXCEPT ![f] = "exited"]
    /\ UNCHANGED <<busVars, pubVars, cpc, fctxErr, fseen, wpc, wgo>>

\* select, case <-ctx.Done(); then the deferred close(done)
FlushCtxDone(f) ==
    /\ ~panicked
    /\ fpc[f] = "select"
    /\ fctxErr[f] # NilErr
    /\ fpc' = [fpc EXCEPT ![f] = "returned"]
    /\ UNCHANGED <<busVars, pubVars, cpc, fgo, fctxErr, fseen, wpc, wgo>>

\* done <- struct{}{} after Flush has closed done: a send on a closed channel panics
FlushGoPanic(f) ==
    /\ ~panicked
    /\ fgo[f] = "sending"
    /\ fpc[f] = "returned"
    /\ panicked' = TRUE
    /\ UNCHANGED <<closeCh, wg, continueOnError, concurrency, subs, observers, nextObs,
                   pubVars, lifeVars>>

\* The context given to Flush (f = "flush") or to Wait (f = "wait") is canceled
FlushCtxCancel(f) ==
    /\ ~panicked
    /\ fctxErr[f] = NilErr
    /\ IF f = "wait" THEN wpc # "returned" ELSE fpc[f] # "returned"
    /\ fctxErr' = [fctxErr EXCEPT ![f] = Canceled]
    /\ UNCHANGED <<busVars, pubVars, cpc, fpc, fgo, fseen, wpc, wgo>>

\* --------------------------------------------------------------------- Wait
\* Wait, up to its select
WaitStart ==
    /\ ~panicked
    /\ wpc = "idle"
    /\ IF fctxErr["wait"] # NilErr
       THEN /\ wpc' = "returned"
            /\ wgo' = wgo
       ELSE /\ wpc' = "select"
            /\ wgo' = "waiting"
    /\ UNCHANGED <<busVars, pubVars, cpc, fpc, fgo, fctxErr, fseen>>

\* <-b.close in Wait's goroutine; b.Flush(ctx) is next
WaitGoClosed ==
    /\ ~panicked
    /\ wgo = "waiting"
    /\ closed
    /\ wgo' = "flush"
    /\ UNCHANGED <<busVars, pubVars, cpc, fpc, fgo, fctxErr, fseen, wpc>>

\* Wait's goroutine is at its send on done: its Flush has returned
WaitGoSending == wgo = "flush" /\ fpc["wait"] = "returned"

\* select, case <-done; then the deferred close(done)
WaitRecv ==
    /\ ~panicked
    /\ wpc = "select"
    /\ WaitGoSending
    /\ wpc' = "returned"
    /\ wgo' = "exited"
    /\ UNCHANGED <<busVars, pubVars, cpc, fpc, fgo, fctxErr, fseen>>

\* select, case <-ctx.Done(); then the deferred close(done)
WaitCtxDone ==
    /\ ~panicked
    /\ wpc = "select"
    /\ fctxErr["wait"] # NilErr
    /\ wpc' = "returned"
    /\ UNCHANGED <<busVars, pubVars, cpc, fpc, fgo, fctxErr, fseen, wgo>>

\* done <- struct{}{} after Wait has closed done
WaitGoPanic ==
    /\ ~panicked
    /\ WaitGoSending
    /\ wpc = "returned"
    /\ panicked' = TRUE
    /\ UNCHANGED <<closeCh, wg, continueOnError, concurrency, subs, observers, nextObs,
                   pubVars, lifeVars>>

\* ----------------------------------------------------------- specifications
Slots == (1..(MaxSubs + 1)) \X (1..(MaxFuncs + 1))

RegisterSubs ==
    \/ \E n \in Names : On(n)
    \/ \E s \in 1..Len(subs) : Do(s)

RegisterMatchers ==
    \/ \E m \in Matchers : When(<<m>>)
    \/ \E s \in 1..Len(subs), m \in Matchers : Or(s, m)

RegisterObservers ==
    \/ \E d \in ObsDurations : AddObserver(d)
    \/ \E o \in DOMAIN observers : RemoveObserver(o)

\* A registered-to-be Publish call after its checks, its dispatch goroutine and the
\* handlers' goroutines
PublishRun(p) ==
    \/ PublishRegister(p)
    \/ PublishCall(p)
    \/ PublishRecv(p)
    \/ PublishCtxDone(p)
    \/ PublishTimer(p)
    \/ DispatchBegin(p)
    \/ DispatchObservers(p)
    \/ DispatchNextKey(p)
    \/ DispatchCall(p)
    \/ DispatchRecv(p)
    \/ DispatchCtxDone(p)
    \/ \E slot \in DOMAIN hst[p] : HandlerBegin(p, slot)
    \/ \E slot \in DOMAIN hst[p], fail \in BOOLEAN : HandlerReturn(p, slot, fail)

\* A Publish call with any name and any event options
PublishStep(p) ==
    \/ \E n \in Names, ht \in Durations, pt \in Durations : PublishStart(p, n, ht, pt)
    \/ PublishRun(p)

\* The goroutines of the observer notifications
ObserverStep(p) ==
    \/ \E o \in DOMAIN ost[p] : ObserverCall(p, o)
    \/ \E o \in DOMAIN ost[p] : ObserveBegin(p, o)
    \/ \E o \in DOMAIN ost[p] : ObserveReturn(p, o)
    \/ \E o \in DOMAIN ost[p] : ObserverRecv(p, o)
    \/ \E o \in DOMAIN ost[p] : ObserverCtxDone(p, o)

\* No Publish call has started: the subscriptions and observers are being set up
Setup == \A p \in Pubs : pc[p] = "idle"

\* One Publish on a bus whose subscriptions were registered beforehand
Next ==
    \/ Setup /\ RegisterSubs
    \/ PublishStep(1)
    \/ CtxCancel(1, Canceled)

Spec == Init /\ [][Next]_vars

\* On("a").Do(fn): one subscription with one handler
RegisterOne ==
    \/ Len(subs) = 0 /\ On("a")
    \/ Len(subs) = 1 /\ subs[1].funcs = 0 /\ Do(1)

\* AddObserver(o, ...) once, and RemoveObserver of it
RegisterOneObserver ==
    \/ nextObs = 0 /\ \E d \in ObsDurations : AddObserver(d)
    \/ \E o \in DOMAIN observers : RemoveObserver(o)

\* One Publish on a bus with at most one subscription and one observer, whose context
\* may be canceled or expire at any time, and a call of Close
ObsNext ==
    \/ Setup /\ RegisterOne
    \/ Setup /\ RegisterOneObserver
    \/ \E n \in Names, pt \in Durations : PublishStart(1, n, 0, pt)
    \/ PublishRun(1)
    \/ ObserverStep(1)
    \/ \E e \in CtxErrs : CtxCancel(1, e)
    \/ CloseCheck(1)
    \/ CloseDo(1)

ObsSpec == Init /\ [][ObsNext]_vars

\* Two calls of Close at any time around one Publish
CloseNext ==
    \/ Setup /\ RegisterOne
    \/ \E pt \in Durations : PublishStart(1, "a", 0, pt)
    \/ PublishRun(1)
    \/ \E c \in Closers : CloseCheck(c)
    \/ \E c \in Closers : CloseDo(c)

CloseSpec == Init /\ [][CloseNext]_vars

\* Two Publish calls at once on a bus with at most one subscription and one observer;
\* each call's context may be canceled, and each event may carry a publish timeout.
\* The goroutines of the observer notifications, which do not touch the WaitGroup, are
\* started but not scheduled.
PairNext ==
    \/ Setup /\ RegisterOne
    \/ Setup /\ nextObs = 0 /\ AddObserver(0)
    \/ \E p \in Pubs, pt \in Durations : PublishStart(p, "a", 0, pt)
    \/ \E p \in Pubs : PublishRun(p)
    \/ \E p \in Pubs : CtxCancel(p, Canceled)

PairSpec == Init /\ [][PairNext]_vars

\* The steps of a call of Flush and of the goroutine it starts
FlushStep(f) ==
    \/ FlushStart(f)
    \/ FlushGoWait(f)
    \/ FlushRecv(f)
    \/ FlushCtxDone(f)
    \/ FlushGoPanic(f)
    \/ FlushCtxCancel(f)

\* The steps of a call of Wait and of the goroutine it starts, which calls Flush
WaitStep ==
    \/ WaitStart
    \/ WaitGoClosed
    \/ WaitRecv
    \/ WaitCtxDone
    \/ WaitGoPanic
    \/ FlushStep("wait")

\* One call of Flush at any time during two Publish calls, the first of an event that
\* may carry a publish timeout
FlushNext ==
    \/ Setup /\ RegisterOne
    \/ \E pt \in Durations : PublishStart(1, "a", 0, pt)
    \/ PublishStart(2, "a", 0, 0)
    \/ \E p \in Pubs : PublishRun(p)
    \/ FlushStep("flush")

FlushSpec == Init /\ [][FlushNext]_vars

\* One call of Wait, one of Close and one of Publish, in any order
WaitNext ==
    \/ Setup /\ RegisterOne
    \/ \E pt \in Durations : PublishStart(1, "a", 0, pt)
    \/ PublishRun(1)
    \/ CloseCheck(1)
    \/ CloseDo(1)
    \/ WaitStep

WaitSpec == Init /\ [][WaitNext]_vars

\* New(WithMaxConcurrencyBusOpt(c)): a bus whose observer fan-out has one slot
LimitInit ==
    /\ closeCh = FALSE
    /\ wg = 0
    /\ continueOnError = FALSE
    /\ concurrency \in {WithMaxConcurrencyBusOpt(c) : c \in ConcurrencyOpts}
    /\ subs = <<>>
    /\ observers = <<>>
    /\ nextObs = 0
    /\ panicked = FALSE
    /\ InitCalls

\* One Publish on a bus with a concurrency limit of one, up to MaxObs observers and at
\* most one subscription; the event may carry a handler and a publish timeout
LimitNext ==
    \/ Setup /\ RegisterOne
    \/ Setup /\ \E d \in ObsDurations : AddObserver(d)
    \/ \E ht \in Durations, pt \in Durations : PublishStart(1, "a", ht, pt)
    \/ PublishRun(1)
    \/ DispatchAcquire(1)
    \/ ObserverStep(1)
    \/ CtxCancel(1, Canceled)

LimitSpec == LimitInit /\ [][LimitNext]_vars

\* ------------------------------------------------------------------ claims
Returned(p) == pc[p] = "returned"

\* The handler of the invocation has returned a non-nil error
Failed(p, slot) == hst[p][slot] \in {"sendErr", "exitErr"}

\* The handler of the invocation has returned and its result was received
Completed(p, slot) == hst[p][slot] \in {"exitNil", "exitErr"}

\* What a matcher is to match: an exact matcher its own name, a constant matcher by its value
ExpectMatch(m, name) ==
    \/ m.kind = "exact" /\ m.arg = name
    \/ m.kind = "constant" /\ m.arg = "true"

Matching(name) ==
    {s \in 1..Len(subs) : \E k \in 1..Len(subs[s].matchers) : ExpectMatch(subs[s].matchers[k], name)}

\* The handlers a Publish of name is to execute
HandlersFor(name) == {<<s, i>> : s \in Matching(name), i \in 1..MaxFuncs} \cap
                     {slot \in Slots : slot[1] <= Len(subs) /\ slot[2] <= subs[slot[1]].funcs}

\* The caller's context was canceled during the call, or a timeout of the event expired
CtxDoneDuring(p) == callerErr[p] # NilErr \/ hist[p].expired

\* The wrapped errors of the failed invocations among seq, in the order of seq
RECURSIVE FailedErrs(_, _)
FailedErrs(p, seq) ==
    IF seq = <<>> THEN <<>>
    ELSE (IF Failed(p, Head(seq))
          THEN <<Wrapped(Head(seq)[1], HandlerErr(Head(seq)[1], Head(seq)[2]))>>
          ELSE <<>>) \o FailedErrs(p, Tail(seq))

\* No handler and no observer notification of the call exists, and no dispatch goroutine
NothingInvoked(p) ==
    /\ disp[p].pc = "none"
    /\ DOMAIN hst[p] = {}
    /\ DOMAIN ost[p] = {}

\* C1: a Publish that starts after a Close() has returned, with a context that is not
\* done, returns ErrBusClosed at once and invokes no handler and no observer.
C1_ClosedBusRejectsPublish ==
    \A p \in Pubs :
        (hist[p].begun /\ hist[p].closed /\ hist[p].ctx = NilErr) =>
            /\ Returned(p)
            /\ result[p] = ErrBusClosed
            /\ NothingInvoked(p)

\* A Publish was rejected by a closed bus that has a handler and an observer registered
C1_Witness ==
    \E p \in Pubs :
        /\ hist[p].begun /\ hist[p].closed /\ hist[p].ctx = NilErr
        /\ result[p] = ErrBusClosed
        /\ \E s \in 1..Len(subs) : subs[s].funcs > 0
        /\ DOMAIN observers # {}

\* C2 as stated: with continueOnError false, once a handler's error has been received
\* while the Publish had not returned, no later handler is started, and Publish returns
\* exactly that error.
C2_ReturnsExactlyHandlerError ==
    \A p \in Pubs : \A slot \in DOMAIN hst[p] :
        (~continueOnError /\ hst[p][slot] = "exitErr" /\ slot \in hist[p].received) =>
            /\ called[p][Len(called[p])] = slot
            /\ Returned(p) => result[p] = HandlerErr(slot[1], slot[2])

\* C2 amended: with continueOnError false, after a handler has returned a non-nil error
\* no later handler is started, and Publish returns that error, or the context's error
\* when the caller's context was canceled or a timeout expired during the call.
C2_StopsAtFirstError ==
    \A p \in Pubs : \A slot \in DOMAIN hst[p] :
        (~continueOnError /\ Failed(p, slot)) =>
            /\ called[p][Len(called[p])] = slot
            /\ Returned(p) =>
                  \/ result[p] = HandlerErr(slot[1], slot[2])
                  \/ result[p] = callerErr[p] /\ callerErr[p] # NilErr
                  \/ result[p] = DeadlineExceeded /\ hist[p].expired

\* A Publish returned the error of the first handler of a subscription that has a second
\* handler, with another matching subscription whose handlers were never started
C2_Witness ==
    \E p \in Pubs : \E s \in Matching(ev[p].name), s2 \in Matching(ev[p].name) :
        /\ ~continueOnError
        /\ Returned(p)
        /\ <<s, 1>> \in DOMAIN hst[p] /\ hst[p][<<s, 1>>] = "exitErr"
        /\ result[p] = HandlerErr(s, 1)
        /\ subs[s].funcs = 2 /\ <<s, 2>> \notin DOMAIN hst[p]
        /\ s2 # s /\ subs[s2].funcs > 0 /\ <<s2, 1>> \notin DOMAIN hst[p]

\* C3 as stated: with continueOnError true, a Publish that passed its checks has, when it
\* returns, begun every handler of every matching subscription, and returns nil or the
\* aggregate of the failed handlers' errors in the order the handlers were executed.
C3_ExecutesAllAndAggregates ==
    \A p \in Pubs :
        (continueOnError /\ Returned(p) /\ hist[p].open /\ hist[p].ctx = NilErr) =>
            /\ \A slot \in HandlersFor(ev[p].name) :
                  slot \in DOMAIN hst[p] /\ hst[p][slot] # "spawned"
            /\ result[p] = IF FailedErrs(p, called[p]) = <<>> THEN NilErr
                           ELSE Errors(FailedErrs(p, called[p]))

\* C3 amended: the same for a Publish during which the caller's context is not canceled
\* and no timeout of the event expires; every handler has then completed, once.
C3_AggregatesWithoutCancellation ==
    \A p \in Pubs :
        (continueOnError /\ Returned(p) /\ hist[p].open /\ hist[p].ctx = NilErr
            /\ ~CtxDoneDuring(p)) =>
            /\ \A slot \in HandlersFor(ev[p].name) :
                  slot \in DOMAIN hst[p] /\ Completed(p, slot)
            /\ Len(called[p]) = Cardinality(HandlersFor(ev[p].name))
            /\ result[p] = IF FailedErrs(p, called[p]) = <<>> THEN NilErr
                           ELSE Errors(FailedErrs(p, called[p]))

\* Three handlers returned e1, nil, e3 and Publish returned the aggregate of e1 and e3
C3_Witness ==
    \E p \in Pubs :
        /\ continueOnError /\ Returned(p) /\ ~CtxDoneDuring(p)
        /\ Len(called[p]) = 3
        /\ hst[p][called[p][1]] = "exitErr"
        /\ hst[p][called[p][2]] = "exitNil"
        /\ hst[p][called[p][3]] = "exitErr"
        /\ result[p].kind = "Errors" /\ Len(result[p].errs) = 2

\* C4 as stated (its last clause): two handlers of one subscription never run at once
C4_NeverConcurrent ==
    \A p \in Pubs : \A s1 \in DOMAIN hst[p], s2 \in DOMAIN hst[p] :
        (s1[1] = s2[1] /\ s1 # s2) => ~(hst[p][s1] = "running" /\ hst[p][s2] = "running")

\* C4 amended: handler i+1 of a subscription is started only when handler i has
\* completed or its invocation was abandoned on the handler timeout; the handlers of a
\* subscription are started in registration order; two of them run at once only when the
\* earlier one was abandoned.
C4_StartedInOrder ==
    \A p \in Pubs :
        /\ \A slot \in DOMAIN hst[p] :
              slot[2] > 1 =>
                  LET prev == <<slot[1], slot[2] - 1>>
                  IN  /\ prev \in DOMAIN hst[p]
                      /\ \/ Completed(p, prev)
                         \/ prev \in hist[p].abandoned /\ ev[p].handlerTimeout > 0
        /\ \A k \in 1..Len(called[p]), l \in 1..Len(called[p]) :
              (k < l /\ called[p][k][1] = called[p][l][1]) => called[p][k][2] < called[p][l][2]
        /\ \A s1 \in DOMAIN hst[p], s2 \in DOMAIN hst[p] :
              (s1[1] = s2[1] /\ s1[2] < s2[2] /\ ~Completed(p, s1)) => s1 \in hist[p].abandoned

\* The second handler of a subscription runs after the first has completed
C4_Witness ==
    \E p \in Pubs : \E s \in 1..Len(subs) :
        /\ <<s, 2>> \in DOMAIN hst[p]
        /\ Completed(p, <<s, 1>>)
        /\ hst[p][<<s, 2>>] = "running"

\* C6: once closed the bus stays closed; a Close() that finds the bus open and closes it
\* leaves it closed; a Close() called on a closed bus returns at once, changes nothing of
\* the bus and does not panic.
C6_ClosedIsTerminal ==
    [][/\ closeCh => closeCh'
       /\ \A c \in Closers :
             /\ (cpc[c] = "checked" /\ ~closeCh /\ cpc'[c] # cpc[c]) =>
                    (closeCh' /\ cpc'[c] = "returned" /\ ~panicked')
             /\ (cpc[c] = "idle" /\ closeCh /\ cpc'[c] # cpc[c]) =>
                    (cpc'[c] = "returned" /\ busVars' = busVars)]_vars

\* Both calls of Close() have returned: the first closed the bus, the later one did nothing
C6_Witness ==
    /\ \A c \in Closers : cpc[c] = "returned"
    /\ closeCh
    /\ ~panicked

\* C7: a Publish called with a context that is already canceled or expired returns that
\* context's error, also on a closed bus; it is not counted in the WaitGroup (this is the
\* only Publish call) and invokes no handler and no observer.
C7_DoneContextFailsFast ==
    \A p \in Pubs :
        (hist[p].begun /\ hist[p].ctx # NilErr) =>
            /\ Returned(p)
            /\ result[p] = hist[p].ctx
            /\ wg = 0
            /\ NothingInvoked(p)

\* A Publish with an expired context returned the deadline error on a closed bus
C7_Witness ==
    \E p \in Pubs :
        /\ hist[p].begun /\ hist[p].ctx = DeadlineExceeded
        /\ ~hist[p].open
        /\ result[p] = DeadlineExceeded

\* The precondition of C8: the call passed both checks, its caller's context is still not
\* canceled, and none of the registered subscriptions is to match the event
C8_Case(p) ==
    /\ Returned(p) /\ hist[p].open /\ hist[p].ctx = NilErr /\ callerErr[p] = NilErr
    /\ Matching(ev[p].name) = {}

\* C8 as stated: such a Publish returns nil and starts no handler
C8_ReturnsNil ==
    \A p \in Pubs : C8_Case(p) => result[p] = NilErr /\ DOMAIN hst[p] = {}

\* C8 amended: such a Publish starts no handler and returns nil, or the deadline error
\* when the event's publish timeout expired before the dispatch had finished
C8_NoHandlerWithoutMatch ==
    \A p \in Pubs :
        C8_Case(p) =>
            /\ DOMAIN hst[p] = {}
            /\ \/ result[p] = NilErr
               \/ result[p] = DeadlineExceeded /\ ev[p].publishTimeout > 0 /\ hist[p].expired

\* A Publish returned nil on a bus with a handler registered for another name
C8_Witness ==
    \E p \in Pubs :
        /\ C8_Case(p)
        /\ result[p] = NilErr
        /\ \E s \in 1..Len(subs) : subs[s].funcs > 0

\* C5 as stated: when a Flush called with a live context has returned, and its context
\* was not canceled meanwhile, every Publish call that had passed its checks and not
\* returned when Flush was called has returned.
C5_FlushWaitsForStarted ==
    (fpc["flush"] = "returned" /\ fctxErr["flush"] = NilErr) =>
        \A p \in fseen["flush"].started : Returned(p)

\* The same for the Publish calls that had done b.wg.Add(1) when Flush was called: they
\* have returned when such a Flush returns.
C5_FlushWaitsForRegistered ==
    (fpc["flush"] = "returned" /\ fctxErr["flush"] = NilErr) =>
        \A p \in fseen["flush"].registered : Returned(p)

\* A Flush that found a Publish call in its select has returned after it
C5_Witness ==
    /\ fpc["flush"] = "returned" /\ fctxErr["flush"] = NilErr
    /\ fseen["flush"].registered # {}
    /\ \A p \in fseen["flush"].registered : Returned(p) /\ disp[p].pc = "exited"

\* C9 as stated: a Wait called with a live context has returned only if its context is
\* canceled or the bus is closed and the Flush after it has returned; and once the bus is
\* closed and no Publish call is in flight, a Wait that has not returned is still going
\* to: the process has not panicked under it.
C9_WaitReturnsAfterClose ==
    /\ wpc = "returned" =>
           \/ fctxErr["wait"] # NilErr
           \/ closeCh /\ fpc["wait"] = "returned"
    /\ (wpc = "select" /\ closeCh /\ \A p \in Pubs : pc[p] \in {"idle", "returned"}) =>
           ~panicked

\* The first part alone: a Wait that has returned had its context canceled, or the bus was
\* closed and the Flush called after that has returned.
C9_WaitReturnsOnlyWhen ==
    wpc = "returned" =>
        \/ fctxErr["wait"] # NilErr
        \/ closeCh /\ fpc["wait"] = "returned"

\* Wait has returned, its context live, after Close() and the return of a Publish call
\* that its Flush waited for
C9_Witness ==
    /\ wpc = "returned" /\ fctxErr["wait"] = NilErr
    /\ closeCh /\ fpc["wait"] = "returned"
    /\ fseen["wait"].registered = {1} /\ Returned(1)

\* The Publish calls that have done b.wg.Add(1) and have not returned
InFlight == {p \in Pubs : pc[p] \in {"registered", "select"}}

\* C10: the WaitGroup counter is the number of Publish calls that have registered and not
\* returned, on every exit path of Publish; it is never negative.
C10_CounterIsInFlight ==
    /\ wg = Cardinality(InFlight)
    /\ wg >= 0

\* Two registered Publish calls have returned, one on its publish timeout and one with a
\* handler's or an aggregate error, and the counter is back to zero
C10_Witness ==
    \E p \in Pubs, q \in Pubs :
        /\ p # q /\ Returned(p) /\ Returned(q)
        /\ hist[p].open /\ hist[p].ctx = NilErr /\ hist[q].open /\ hist[q].ctx = NilErr
        /\ result[p] = DeadlineExceeded /\ hist[p].expired
        /\ result[q].kind \in {"handler", "Errors"}
        /\ wg = 0

\* The observer notifications of the call whose Observe has begun and not returned
ObserveRunning(p) == {o \in DOMAIN ost[p] : ost[p][o].f = "running"}

\* The notifications of the call that hold a slot: started, their doWithTimeout not returned
SlotHeld(p) == {o \in DOMAIN ost[p] : ost[p][o].w \in {"spawned", "select"}}

\* C11 as stated: at every moment at most concurrency observer notifications of one Publish
\* are running, Observe begun and not returned.
C11_RunningWithinCeiling ==
    \A p \in Pubs : Cardinality(ObserveRunning(p)) <= concurrency

\* What the semaphore does bound: the notifications whose doWithTimeout has not returned
\* are as many as the slots taken, at most concurrency.
C11_SlotsWithinCeiling ==
    \A p \in Pubs :
        /\ sem[p] = Cardinality(SlotHeld(p))
        /\ sem[p] <= concurrency

\* The fan-out waited for the only slot: the second notification was started after the
\* first had returned, with two observers and a ceiling of one
C11_Witness ==
    \E p \in Pubs :
        /\ concurrency = 1
        /\ Cardinality(DOMAIN ost[p]) = 2
        /\ \E o \in DOMAIN ost[p] : ost[p][o].f = "exited"
        /\ \E o \in DOMAIN ost[p] : ost[p][o].f = "running"

\* The shorter of two durations where a non-positive one means no limit and is left out
\* of the comparison; 0, no limit, when both are non-positive
ExpectTimeout(d1, d2) ==
    IF d1 <= 0 THEN (IF d2 <= 0 THEN 0 ELSE d2)
    ELSE IF d2 <= 0 THEN d1
    ELSE IF d2 < d1 THEN d2 ELSE d1

\* C12 as stated: the timeout of an observer notification is the shorter of the event's
\* handler timeout and the observer's own, a non-positive one left out of the comparison.
C12_EffectiveObserverTimeout ==
    \A p \in Pubs : \A o \in DOMAIN ost[p] :
        o \in DOMAIN observers =>
            ost[p][o].timeout = ExpectTimeout(ev[p].handlerTimeout, observers[o])

\* When both durations are positive, or neither is, the notification has the timeout the
\* claim gives it.
C12_BothOrNeitherPositive ==
    \A p \in Pubs : \A o \in DOMAIN ost[p] :
        (o \in DOMAIN observers /\ (ev[p].handlerTimeout > 0 <=> observers[o] > 0)) =>
            ost[p][o].timeout = ExpectTimeout(ev[p].handlerTimeout, observers[o])

\* A notification of an observer with timeout 2 for an event with handler timeout 1 was
\* given up after the shorter of the two
C12_Witness ==
    \E p \in Pubs : \E o \in DOMAIN ost[p] :
        /\ o \in DOMAIN observers
        /\ ev[p].handlerTimeout = 1 /\ observers[o] = 2
        /\ ost[p][o].timeout = 1
        /\ ost[p][o].w = "exited" /\ ost[p][o].f = "running"

\* The case of C13: a registered Publish of an event that carries a handler timeout and no
\* publish timeout, whose caller's context is never canceled.  A handler takes longer
\* than the timeout when its invocation is given up on the deadline (it is in
\* hist.abandoned), and less when its result is received.
C13_Case(p) ==
    /\ hist[p].open /\ hist[p].ctx = NilErr /\ callerErr[p] = NilErr
    /\ ev[p].handlerTimeout > 0 /\ ev[p].publishTimeout = 0

C14_Case(p) ==
    /\ hist[p].open /\ hist[p].ctx = NilErr /\ callerErr[p] = NilErr
    /\ ev[p].publishTimeout > 0

\* C14: once the deadline of the publish timeout has passed, Publish can return at once,
\* whatever the dispatch is doing, and a Publish that returns while its dispatch is
\* still at work returns context.DeadlineExceeded after the deadline passed; from the
\* deadline on the dispatch starts no further handler.
C14_PublishBudget ==
    \A p \in Pubs :
        C14_Case(p) =>
            /\ (pc[p] = "select" /\ dctxErr[p] = DeadlineExceeded) => ENABLED PublishCtxDone(p)
            /\ (Returned(p) /\ disp[p].pc \notin {"none", "exited"}) =>
                   /\ dctxErr[p] = DeadlineExceeded
                   /\ result[p] = DeadlineExceeded
            /\ (dctxErr[p] = DeadlineExceeded /\ disp[p].pc = "call") =>
                   ~ENABLED (DispatchCall(p) /\ Len(called'[p]) > Len(called[p]))

\* The publish deadline passed while the second handler was running, the first having
\* completed and none having exceeded a handler timeout, and Publish returned the
\* deadline error without waiting for it
C14_Witness ==
    \E p \in Pubs : \E s \in 1..Len(subs) :
        /\ C14_Case(p) /\ Returned(p)
        /\ result[p] = DeadlineExceeded
        /\ hist[p].abandoned = {}
        /\ <<s, 1>> \in DOMAIN hst[p] /\ hst[p][<<s, 1>>] = "exitNil"
        /\ <<s, 2>> \in DOMAIN hst[p] /\ hst[p][<<s, 2>>] = "running"
        /\ disp[p].pc = "select"

\* ----------------------------------------------------------------- registration races
\* The range over b.observers of the dispatch of Publish p is in progress
RangingObservers(p) == disp[p].pc \in {"observers", "acquire"}

\* The range over b.subscriptions of the dispatch of Publish p is in progress
RangingSubscriptions(p) == disp[p].pc \in {"keys", "call", "select"}

\* The range over s.funcs of the dispatch of Publish p is in progress
RangingFuncs(p, s) == disp[p].pc \in {"call", "select"} /\ disp[p].sub = s

\* The bus has no lock: a map written while a range over it is in progress is a data
\* race, which the runtime may detect ("fatal error: concurrent map iteration and map
\* write") and end the program.  Undetected, the range goes on as DispatchObservers and
\* DispatchNextKey describe.
MapFault(p) ==
    /\ ~panicked
    /\ \/ RangingObservers(p) /\ disp[p].obsTodo # DOMAIN observers
       \/ RangingSubscriptions(p) /\ disp[p].keysTodo # Keys
    /\ panicked' = TRUE
    /\ UNCHANGED <<closeCh, wg, continueOnError, concurrency, subs, observers, nextObs,
                   pubVars, lifeVars>>

\* The registration calls: On("a").Do(fn), up to MaxFuncs times, then When of a matcher
\* and Or on its subscription, AddObserver once and RemoveObserver of it
RegisterRace ==
    \/ Len(subs) = 0 /\ On("a")
    \/ Len(subs) = 1 /\ When(<<ExactMatcher("a")>>)
    \/ Or(2, ConstantMatcher(TRUE))
    \/ Do(1)
    \/ RegisterOneObserver

\* One Publish, and registration at any time, also while the Publish is dispatching
RaceNext ==
    \/ RegisterRace
    \/ \E pt \in Durations : PublishStart(1, "a", 0, pt)
    \/ PublishRun(1)
    \/ MapFault(1)

RaceSpec == Init /\ [][RaceNext]_vars

\* C15: no registration call writes the observer map, the subscription map or the
\* handler list of a subscription while the range of a dispatch over it is in progress
C15_NoWriteDuringRange ==
    [][\A p \in Pubs :
          /\ observers' # observers => ~RangingObservers(p)
          /\ Len(subs') > Len(subs) => ~RangingSubscriptions(p)
          /\ \A s \in 1..Len(subs) :
                subs'[s].funcs # subs[s].funcs => ~RangingFuncs(p, s)]_vars

\* When added a key to the subscription map during the range of a dispatch over it, and
\* the runtime ended the program on the concurrent access
C15_Witness ==
    \E p \in Pubs :
        /\ RangingSubscriptions(p)
        /\ disp[p].keysTodo # Keys
        /\ panicked

\* The observer fan-out of Publish p failed: its dispatch ended with a registered
\* observer for which no notification was launched
FanOutFailed(p) ==
    /\ disp[p].pc \in {"sending", "exited"}
    /\ ~(DOMAIN observers \subseteq DOMAIN ost[p])

\* C16: a handler is started only after a notification was launched for every registered
\* observer; a dispatch whose fan-out failed started no handler and ended with the error
\* of its context, which is what Publish returns.
C16_ObserversBeforeHandlers ==
    \A p \in Pubs :
        /\ DOMAIN hst[p] # {} => DOMAIN observers \subseteq DOMAIN ost[p]
        /\ FanOutFailed(p) =>
              /\ DOMAIN hst[p] = {} /\ called[p] = <<>>
              /\ dctxErr[p] \in CtxErrs
              /\ disp[p].ret = dctxErr[p]
              /\ Returned(p) => result[p] = disp[p].ret

\* The context was canceled while the fan-out waited for a slot for the second observer:
\* Publish returned context.Canceled and the handler of the matching subscription was
\* not started
C16_Witness ==
    \E p \in Pubs :
        /\ FanOutFailed(p) /\ Returned(p)
        /\ disp[p].obs \in DOMAIN observers \ DOMAIN ost[p]
        /\ DOMAIN ost[p] # {}
        /\ HandlersFor(ev[p].name) # {}
        /\ result[p] = Canceled
        /\ called[p] = <<>>

\* The case of C17: a registered Publish of an event without publish timeout whose
\* caller's context is never canceled, so that the observer fan-out cannot fail
C17_Case(p) ==
    /\ hist[p].open /\ hist[p].ctx = NilErr /\ callerErr[p] = NilErr
    /\ ev[p].publishTimeout = 0

\* C17: once every observer has a launched notification the dispatch goes on to the
\* subscriptions whatever the notifications are doing, and the result of Publish is
\* that of the handlers alone: nil exactly when every matching handler completed
\* without error, otherwise the error of a failed handler or the deadline error of one
\* that exceeded the handler timeout.
C17_ObserversNotReported ==
    \A p \in Pubs :
        /\ (disp[p].pc = "observers" /\ DOMAIN observers \subseteq DOMAIN ost[p]) =>
               ENABLED DispatchObservers(p)
        /\ (C17_Case(p) /\ Returned(p)) =>
              /\ result[p] = NilErr <=>
                     \A slot \in HandlersFor(ev[p].name) :
                         slot \in DOMAIN hst[p] /\ hst[p][slot] = "exitNil"
              /\ result[p] # NilErr =>
                     \E slot \in DOMAIN hst[p] :
                         \/ Failed(p, slot) /\ result[p] = HandlerErr(slot[1], slot[2])
                         \/ slot \in hist[p].abandoned /\ result[p] = DeadlineExceeded

\* Publish returned nil after its handler completed, while the notification of one
\* observer had timed out with Observe still running and that of another was still
\* waiting for Observe
C17_Witness ==
    \E p \in Pubs : \E o1, o2 \in DOMAIN ost[p] :
        /\ C17_Case(p) /\ Returned(p) /\ result[p] = NilErr
        /\ \E slot \in DOMAIN hst[p] : hst[p][slot] = "exitNil"
        /\ ost[p][o1].w = "exited" /\ ost[p][o1].f = "running"
        /\ ost[p][o2].w = "select" /\ ost[p][o2].f = "running"

\* ----------------------------------------------------------------- matching
\* Event names of the Publish calls of MatchSpec: the names that subscriptions are
\* registered for, and the string of the key that When stores its first subscription under
MatchNames == Names \cup {"id:1"}

\* When(m) and Or(m) with a matcher that is an exact name or a constant
RegisterSomeMatchers ==
    \/ \E m \in {ExactMatcher("a"), ConstantMatcher(FALSE)} : When(<<m>>)
    \/ \E s \in 1..Len(subs), m \in {ExactMatcher("b"), ConstantMatcher(TRUE)} : Or(s, m)

\* A Publish call without timeouts whose context stays live
PublishQuiet(p) ==
    \/ \E n \in MatchNames : PublishStart(p, n, 0, 0)
    \/ PublishRegister(p)
    \/ PublishCall(p)
    \/ PublishRecv(p)
    \/ DispatchBegin(p)
    \/ DispatchObservers(p)
    \/ DispatchNextKey(p)
    \/ DispatchCall(p)
    \/ DispatchRecv(p)
    \/ \E slot \in DOMAIN hst[p] : HandlerBegin(p, slot)
    \/ \E slot \in DOMAIN hst[p], fail \in BOOLEAN : HandlerReturn(p, slot, fail)

\* One Publish on a bus whose subscriptions were registered beforehand with On, When,
\* Or and Do
MatchNext ==
    \/ Setup /\ RegisterSubs
    \/ Setup /\ RegisterSomeMatchers
    \/ PublishQuiet(1)

MatchSpec == Init /\ [][MatchNext]_vars

\* C18 as stated: a returned Publish on an open bus has executed the handlers of exactly
\* the subscriptions one of whose matchers is to match the event
C18_ExecutedIffMatch ==
    \A p \in Pubs :
        (Returned(p) /\ hist[p].open) =>
            /\ \A slot \in DOMAIN hst[p] : slot[1] \in Matching(ev[p].name)
            /\ \A slot \in HandlersFor(ev[p].name) :
                   slot \in DOMAIN hst[p] /\ Completed(p, slot)

\* C18 amended: a handler is started only for a subscription one of whose matchers is to
\* match the event, whatever key the subscription is stored under; and a dispatch that is
\* not cut short (the bus open, the context live, and no handler failing unless
\* continueOnError is set) completes every handler of every such subscription.
C18_MatchersOrCombined ==
    \A p \in Pubs :
        /\ \A slot \in DOMAIN hst[p] : slot[1] \in Matching(ev[p].name)
        /\ (/\ Returned(p) /\ hist[p].open
            /\ continueOnError \/ \A slot \in DOMAIN hst[p] : ~Failed(p, slot)) =>
               \A slot \in HandlersFor(ev[p].name) :
                   slot \in DOMAIN hst[p] /\ Completed(p, slot)

\* A subscription made by When with a matcher that does not match the event, to which Or
\* added one that does, had its handler executed
C18_Witness ==
    \E p \in Pubs : \E s \in 1..Len(subs) :
        /\ Returned(p)
        /\ subs[s].key.type = "noMatch"
        /\ Len(subs[s].matchers) = 2
        /\ ~ExpectMatch(subs[s].matchers[1], ev[p].name)
        /\ ExpectMatch(subs[s].matchers[2], ev[p].name)
        /\ <<s, 1>> \in DOMAIN hst[p] /\ hst[p][<<s, 1>>] = "exitNil"

\* C19: when Flush has returned without its context being done, no handler of a Publish
\* that had registered with the WaitGroup when Flush was called is still running, and
\* no observer notification of it either
C19_FlushLeavesNothingRunning ==
    (fpc["flush"] = "returned" /\ fctxErr["flush"] = NilErr) =>
        \A p \in fseen["flush"].registered :
            /\ \A slot \in DOMAIN hst[p] : hst[p][slot] # "running"
            /\ \A o \in DOMAIN ost[p] : ost[p][o].f # "running"

\* Flush returned after a Publish that it waited for had returned on its publish timeout,
\* and the handler that Publish left behind is still running
C19_Witness ==
    \E p \in fseen["flush"].registered : \E slot \in DOMAIN hst[p] :
        /\ fpc["flush"] = "returned" /\ fctxErr["flush"] = NilErr
        /\ Returned(p) /\ result[p] = DeadlineExceeded
        /\ hst[p][slot] = "running"

\* C20: when nothing can happen any more, no goroutine of a handler whose invocation
\* was abandoned is left in its send on done: once the handler returned, it has ended
C20_AbandonedGoroutineEnds ==
    (~ENABLED Next) =>
        \A p \in Pubs : \A slot \in hist[p].abandoned : ~HandlerDone(hst[p][slot])

\* Publish has returned and every goroutine has gone as far as it can; the handler of an
\* abandoned invocation has returned nil and its goroutine is in the send on done, which
\* nothing will receive
C20_Witness ==
    \E p \in Pubs : \E slot \in hist[p].abandoned :
        /\ ~ENABLED Next
        /\ Returned(p)
        /\ hst[p][slot] = "sendNil"

\* C21: the goroutine of Flush or of Wait is never at its send on done when the call
\* that made the channel has returned, and so closed it
C21_NoSendOnClosedDone ==
    /\ \A f \in Flushes : ~(fgo[f] = "sending" /\ fpc[f] = "returned")
    /\ ~(WaitGoSending /\ wpc = "returned")

\* Wait has returned on its canceled context and the bus was closed; the goroutine of
\* Wait went through Flush and its send on the closed done panicked
C21_Witness ==
    /\ panicked
    /\ wpc = "returned" /\ fctxErr["wait"] = Canceled
    /\ closeCh
    /\ WaitGoSending

\* C22: no handler begins to execute once the Publish call that dispatches it has returned
C22_NoHandlerBeginsAfterReturn ==
    [][\A p \in Pubs : \A slot \in DOMAIN hst[p] :
          (Returned(p) /\ hst[p][slot] = "spawned") => hst'[p][slot] = "spawned"]_vars

\* What holds instead: once Publish has returned its dispatch calls no further handler
C22_NoInvocationAfterReturn ==
    [][\A p \in Pubs : Returned(p) => called'[p] = called[p]]_vars

\* Publish has returned on the deadline of its publish timeout while the goroutine of a
\* handler it had called has not begun the handler, which it is free to do next
C22_Witness ==
    \E p \in Pubs : \E slot \in DOMAIN hst[p] :
        /\ Returned(p) /\ result[p] = DeadlineExceeded /\ ev[p].publishTimeout > 0
        /\ hst[p][slot] = "spawned"
        /\ ENABLED HandlerBegin(p, slot)

\* C23: when Wait has returned without its context being done the bus is closed and no
\* Publish call is in flight, whenever it passed the closed check
C23_WaitLeavesNothingInFlight ==
    (wpc = "returned" /\ fctxErr["wait"] = NilErr) =>
        /\ closeCh
        /\ InFlight = {}

\* Wait has returned, its context live, on the closed bus, and a Publish that passed
\* the closed check while the bus was open has a handler running
C23_Witness ==
    \E p \in Pubs : \E slot \in DOMAIN hst[p] :
        /\ wpc = "returned" /\ fctxErr["wait"] = NilErr /\ closeCh
        /\ hist[p].open /\ p \in InFlight
        /\ p \notin fseen["wait"].registered
        /\ hst[p][slot] = "running"

\* C24: the close channel is closed once: no call of Close() is past its closed() check
\* when the channel has been closed, where its close(b.close) would panic
C24_ClosedExactlyOnce ==
    ~(closeCh /\ \E c \in Closers : cpc[c] = "checked")

\* Two calls of Close() both passed the check on the open bus; one closed the channel and
\* returned, and the close of the other panicked
C24_Witness ==
    \E c1, c2 \in Closers :
        /\ c1 # c2
        /\ cpc[c1] = "returned" /\ cpc[c2] = "checked"
        /\ closeCh /\ panicked

====
